---- MODULE Spec2Model ----
(***************************************************************************)
(* Model of scripts/parser.py: the menu-image extraction script.           *)
(*                                                                         *)
(* One invocation of the script is a process that walks the module-level   *)
(* statements in order: read the environment, download the image, call    *)
(* the model, validate the JSON answer, compute the target path, assert    *)
(* that the path is free, open it for writing, normalise the entries and  *)
(* write them.  The file system (the menus directory) is the only state   *)
(* shared between invocations.                                             *)
(*                                                                         *)
(* Restaurant names are Korean strings in the source; the model uses the  *)
(* ASCII stand-ins dorm_korean (the generic dormitory dining hall) and     *)
(* dorm_halal (its Halal variant).                                         *)
(***************************************************************************)
EXTENDS Integers, Sequences, FiniteSets, TLC

VARIABLES
    pc,               \* pc[p]: the statement invocation p is at, or died at
    err,              \* err[p]: "none", or the exception that ended p
    response,         \* response[p]: the JSON text the model returned
    parsed_result,    \* parsed_result[p]: the validated WeeklyMenu
    year,             \* year[p]: datetime.now().year as read by p
    final_path,       \* final_path[p]: the target path p computed
    output_for_save,  \* output_for_save[p]: the normalised entries
    fs,               \* fs[path]: the file at each path of the menus directory
    fs0,              \* fs0[p]: the file system as it was when p started
    runs              \* invocations started so far

vars == <<pc, err, response, parsed_result, year, final_path,
          output_for_save, fs, fs0, runs>>

(***************************************************************************)
(* Bounds.                                                                 *)
(***************************************************************************)
MaxItems == 2
MaxRuns == 3

Procs == {1, 2}

(***************************************************************************)
(* The symbols and values a model answer may carry.                        *)
(***************************************************************************)
Weekdays == {"Mon", "Tue", "Wed", "Thu", "Fri", "Sat", "Sun"}
MealTimes == {"breakfast", "lunch", "dinner"}
DaySymbols == Weekdays \cup {"Xyz"}
TimeSymbols == MealTimes \cup {"brunch"}
RestaurantNames == {"dorm_korean", "dorm_halal"}
StartDates == {"03-04"}
Years == {2024, 2025}

\* A JSON value found under "calorie": an integer, null, a non-numeric
\* string, or no such key at all.
JInt(v) == [tag |-> "int", val |-> v]
JNull == [tag |-> "null", val |-> 0]
JStr == [tag |-> "str", val |-> 0]
JAbsent == [tag |-> "absent", val |-> 0]
CalorieValues == {JInt(-1), JInt(0), JInt(550), JNull, JStr, JAbsent}

weekday_to_index ==
    [Mon |-> 1, Tue |-> 2, Wed |-> 3, Thu |-> 4, Fri |-> 5, Sat |-> 6, Sun |-> 7]

time_to_index ==
    [breakfast |-> 1, lunch |-> 2, dinner |-> 3]

(***************************************************************************)
(* The model's answer: response.text, a JSON document.                     *)
(***************************************************************************)
BaseItem ==
    [date |-> "03-04", day |-> "Mon", menus |-> <<"Rice", "Soup">>,
     calorie |-> JInt(550), time |-> "lunch"]

\* The entries an answer may list: BaseItem changed in one field.
RawItems ==
    {[BaseItem EXCEPT !.day = d] : d \in DaySymbols}
    \cup {[BaseItem EXCEPT !.time = t] : t \in TimeSymbols}
    \cup {[BaseItem EXCEPT !.calorie = c] : c \in CalorieValues}
    \cup {[BaseItem EXCEPT !.date = "11-20"], [BaseItem EXCEPT !.menus = <<>>]}

SeqsUpTo(S, n) == UNION {[1..k -> S] : k \in 0..n}

\* Text that is no JSON document of the WeeklyMenu shape at all.
Malformed ==
    [valid_json |-> FALSE, items |-> <<>>, restaurant_name |-> "",
     start_date |-> "", end_date |-> ""]

WeeklyJson(its, rn, sd) ==
    [valid_json |-> TRUE, items |-> its, restaurant_name |-> rn,
     start_date |-> sd, end_date |-> "03-08"]

Responses ==
    {Malformed} \cup
    {WeeklyJson(its, rn, sd) :
        its \in SeqsUpTo(RawItems, MaxItems), rn \in RestaurantNames,
        sd \in StartDates}

\* The answers used where several invocations are followed.
SmallItems ==
    {BaseItem, [BaseItem EXCEPT !.day = "Xyz"], [BaseItem EXCEPT !.calorie = JInt(0)]}

SmallResponses ==
    {WeeklyJson(its, rn, sd) :
        its \in SeqsUpTo(SmallItems, 1), rn \in RestaurantNames,
        sd \in StartDates}

NoResult ==
    [items |-> <<>>, restaurant_name |-> "", start_date |-> "", end_date |-> ""]

(***************************************************************************)
(* Schema validation: the pydantic models DailyMenu and WeeklyMenu.        *)
(***************************************************************************)
\* date, day and time are declared str and menus list[str]: any string
\* passes.  calorie is declared int, a required field.
DailyMenu(it) == it.calorie.tag = "int"

WeeklyMenu(r) ==
    /\ r.valid_json
    /\ \A i \in 1..Len(r.items) : DailyMenu(r.items[i])

model_validate_json(r) ==
    [items |-> r.items, restaurant_name |-> r.restaurant_name,
     start_date |-> r.start_date, end_date |-> r.end_date]

(***************************************************************************)
(* The target path.                                                        *)
(***************************************************************************)
PathOf(rn, y, sd) ==
    "menus/" \o rn \o "_" \o ToString(y) \o "-" \o sd \o ".json"

Paths == {PathOf(rn, y, sd) : rn \in RestaurantNames, y \in Years, sd \in StartDates}

(***************************************************************************)
(* Normalisation: the body of the for loop.                                *)
(***************************************************************************)
\* Mutant of Lookup: dict.get(key, 0), a default in place of the KeyError.
Lookup_default(dict, key) ==
    IF key \in DOMAIN dict
    THEN [ok |-> TRUE, val |-> dict[key]]
    ELSE [ok |-> TRUE, val |-> 0]

\* dict[key]: the value, or a KeyError.
Lookup(dict, key) ==
    IF key \in DOMAIN dict
    THEN [ok |-> TRUE, val |-> dict[key]]
    ELSE [ok |-> FALSE, val |-> 0]

\* Mutant of NormalizeEntry: every entry is given the generic dormitory name.
NormalizeEntry_generic(daily_menu, y, rn) ==
    LET d == Lookup(weekday_to_index, daily_menu.day)
        t == Lookup(time_to_index, daily_menu.time)
    IN  [ok    |-> d.ok /\ t.ok,
         entry |-> [date |-> ToString(y) \o "-" \o daily_menu.date,
                    day |-> d.val,
                    menus |-> daily_menu.menus,
                    calorie |-> IF daily_menu.calorie.tag = "null"
                                THEN 0 ELSE daily_menu.calorie.val,
                    time |-> t.val,
                    restaurant_name |-> "dorm_korean"]]

NormalizeEntry(daily_menu, y, rn) ==
    LET d == Lookup(weekday_to_index, daily_menu.day)
        t == Lookup(time_to_index, daily_menu.time)
    IN  [ok    |-> d.ok /\ t.ok,
         entry |-> [date |-> ToString(y) \o "-" \o daily_menu.date,
                    day |-> d.val,
                    menus |-> daily_menu.menus,
                    calorie |-> IF daily_menu.calorie.tag = "null"
                                THEN 0 ELSE daily_menu.calorie.val,
                    time |-> t.val,
                    restaurant_name |-> rn]]

\* Mutant of NormalizeLoop: the entries are inserted at the front
\* (output_for_save.insert(0, daily_menu)), so they come out reversed.
NormalizeLoop_reversed(items, y, rn) ==
    LET rs == [i \in 1..Len(items) |-> NormalizeEntry(items[i], y, rn)]
        bad == {i \in 1..Len(items) : ~rs[i].ok}
        n == IF bad = {} THEN Len(items)
             ELSE (CHOOSE i \in bad : \A j \in bad : i <= j) - 1
    IN  [ok |-> bad = {}, out |-> [i \in 1..n |-> rs[n + 1 - i].entry]]

\* The whole loop: every entry in order, or the entries appended before the
\* first lookup that raised.
NormalizeLoop(items, y, rn) ==
    LET rs == [i \in 1..Len(items) |-> NormalizeEntry(items[i], y, rn)]
        bad == {i \in 1..Len(items) : ~rs[i].ok}
        n == IF bad = {} THEN Len(items)
             ELSE (CHOOSE i \in bad : \A j \in bad : i <= j) - 1
    IN  [ok |-> bad = {}, out |-> [i \in 1..n |-> rs[i].entry]]

(***************************************************************************)
(* Files.  A file is the list of buffers written to it since it was       *)
(* created or last truncated: none for an empty file, one for a file that *)
(* holds exactly the JSON array of that buffer.                            *)
(***************************************************************************)
NoFile == [exists |-> FALSE, writes |-> <<>>]
EmptyFile == [exists |-> TRUE, writes |-> <<>>]
FileOf(entries) == [exists |-> TRUE, writes |-> <<entries>>]

\* open(path, "w"): create the file, or truncate the one there.
OpenW(f, path) == [f EXCEPT ![path] = EmptyFile]

\* f.write(json.dumps(entries)) and the close that flushes it.
WriteTo(f, path, entries) ==
    [f EXCEPT ![path] = [exists |-> TRUE, writes |-> Append(@.writes, entries)]]

(***************************************************************************)
(* Initial states.                                                         *)
(***************************************************************************)
Fresh ==
    /\ pc = [p \in Procs |-> "config"]
    /\ err = [p \in Procs |-> "none"]
    /\ response = [p \in Procs |-> Malformed]
    /\ parsed_result = [p \in Procs |-> NoResult]
    /\ year = [p \in Procs |-> 0]
    /\ final_path = [p \in Procs |-> ""]
    /\ output_for_save = [p \in Procs |-> <<>>]
    /\ runs = 0

\* What an earlier invocation may have left at the path of (rn, y, sd):
\* an empty file or a written week.
LeftBehind(rn, y) ==
    {EmptyFile,
     FileOf(NormalizeLoop(<<BaseItem>>, y, rn).out),
     FileOf(NormalizeLoop(<<>>, y, rn).out)}

\* The menus directory is empty, or holds one file of an earlier week.
Init ==
    /\ Fresh
    /\ \/ fs = [path \in Paths |-> NoFile]
       \/ \E rn \in RestaurantNames, y \in Years, sd \in StartDates :
            \E old \in LeftBehind(rn, y) :
                fs = [path \in Paths |->
                        IF path = PathOf(rn, y, sd) THEN old ELSE NoFile]
    /\ fs0 = [p \in Procs |-> fs]

\* The menus directory is empty.
InitEmpty ==
    /\ Fresh
    /\ fs = [path \in Paths |-> NoFile]
    /\ fs0 = [p \in Procs |-> fs]

(***************************************************************************)
(* The statements of the script, in order.                                 *)
(***************************************************************************)
At(p, stmt) == pc[p] = stmt /\ err[p] = "none"

Goto(p, stmt) == pc' = [pc EXCEPT ![p] = stmt] /\ UNCHANGED err

\* An uncaught exception: the process ends at the statement it is at.
Raise(p, e) == err' = [err EXCEPT ![p] = e] /\ UNCHANGED pc

Ended(p) == pc[p] = "done" \/ err[p] # "none"

\* os.environ["GEMINI_API_KEY"], os.environ["IMAGE_URL"]
ReadConfig(p) ==
    /\ At(p, "config")
    /\ runs < MaxRuns
    /\ runs' = runs + 1
    /\ fs0' = [fs0 EXCEPT ![p] = fs]
    /\ \E env \in SUBSET {"GEMINI_API_KEY", "IMAGE_URL"} :
        IF env = {"GEMINI_API_KEY", "IMAGE_URL"}
        THEN Goto(p, "fetch")
        ELSE Raise(p, "KeyError")
    /\ UNCHANGED <<response, parsed_result, year, final_path, output_for_save, fs>>

\* requests.get(image_url), PIL.Image.open(...)
Fetch(p) ==
    /\ At(p, "fetch")
    /\ \E ok \in BOOLEAN :
        IF ok THEN Goto(p, "request") ELSE Raise(p, "FetchError")
    /\ UNCHANGED <<response, parsed_result, year, final_path, output_for_save,
                   fs, fs0, runs>>

\* client.models.generate_content(...)
Request(p, answers) ==
    /\ At(p, "request")
    /\ \/ \E r \in answers :
            /\ response' = [response EXCEPT ![p] = r]
            /\ Goto(p, "validate")
       \/ /\ Raise(p, "APIError")
          /\ UNCHANGED response
    /\ UNCHANGED <<parsed_result, year, final_path, output_for_save, fs, fs0, runs>>

\* WeeklyMenu.model_validate_json(response.text), datetime.now().year and
\* the computation of final_path
Validate(p) ==
    /\ At(p, "validate")
    /\ IF WeeklyMenu(response[p])
       THEN \E y \in Years :
            LET parsed == model_validate_json(response[p]) IN
            /\ parsed_result' = [parsed_result EXCEPT ![p] = parsed]
            /\ year' = [year EXCEPT ![p] = y]
            /\ final_path' = [final_path EXCEPT ![p] =
                    PathOf(parsed.restaurant_name, y, parsed.start_date)]
            /\ Goto(p, "check")
       ELSE /\ Raise(p, "ValidationError")
            /\ UNCHANGED <<parsed_result, year, final_path>>
    /\ UNCHANGED <<response, output_for_save, fs, fs0, runs>>

\* Mutant of CheckExists: the assertion is gone.
CheckExists_noassert(p) ==
    /\ At(p, "check")
    /\ Goto(p, "open")
    /\ UNCHANGED <<response, parsed_result, year, final_path, output_for_save,
                   fs, fs0, runs>>

\* assert not final_path.exists()
CheckExists(p) ==
    /\ At(p, "check")
    /\ IF fs[final_path[p]].exists
       THEN Raise(p, "AssertionError")
       ELSE Goto(p, "open")
    /\ UNCHANGED <<response, parsed_result, year, final_path, output_for_save,
                   fs, fs0, runs>>

\* with open(final_path, "w", encoding="utf-8") as f:
Open(p) ==
    /\ At(p, "open")
    /\ \/ /\ fs' = OpenW(fs, final_path[p])
          /\ Goto(p, "normalize")
       \/ /\ Raise(p, "OSError")
          /\ UNCHANGED fs
    /\ UNCHANGED <<response, parsed_result, year, final_path, output_for_save,
                   fs0, runs>>

\* json_data = parsed_result.model_dump(mode="json") and the for loop
Normalize(p) ==
    /\ At(p, "normalize")
    /\ LET res == NormalizeLoop(parsed_result[p].items, year[p],
                                parsed_result[p].restaurant_name) IN
        /\ output_for_save' = [output_for_save EXCEPT ![p] = res.out]
        /\ IF res.ok THEN Goto(p, "write") ELSE Raise(p, "KeyError")
    /\ UNCHANGED <<response, parsed_result, year, final_path, fs, fs0, runs>>

\* f.write(json.dumps(output_for_save, ...)) and leaving the with block
Write(p) ==
    /\ At(p, "write")
    /\ \/ /\ fs' = WriteTo(fs, final_path[p], output_for_save[p])
          /\ Goto(p, "done")
       \/ /\ Raise(p, "OSError")
          /\ UNCHANGED fs
    /\ UNCHANGED <<response, parsed_result, year, final_path, output_for_save,
                   fs0, runs>>

\* The process exits; the next invocation starts from nothing but the files.
Exit(p) ==
    /\ Ended(p)
    /\ runs < MaxRuns
    /\ pc' = [pc EXCEPT ![p] = "config"]
    /\ err' = [err EXCEPT ![p] = "none"]
    /\ response' = [response EXCEPT ![p] = Malformed]
    /\ parsed_result' = [parsed_result EXCEPT ![p] = NoResult]
    /\ year' = [year EXCEPT ![p] = 0]
    /\ final_path' = [final_path EXCEPT ![p] = ""]
    /\ output_for_save' = [output_for_save EXCEPT ![p] = <<>>]
    /\ UNCHANGED <<fs, fs0, runs>>

Run(p, answers) ==
    \/ ReadConfig(p)
    \/ Fetch(p)
    \/ Request(p, answers)
    \/ Validate(p)
    \/ CheckExists(p)
    \/ Open(p)
    \/ Normalize(p)
    \/ Write(p)

(***************************************************************************)
(* Specifications.                                                         *)
(***************************************************************************)
\* One invocation, any answer, any earlier file.
Next == Run(1, Responses)

Spec == Init /\ [][Next]_vars

\* Invocations one after another in an initially empty directory.
NextSeq == Run(1, SmallResponses) \/ Exit(1)

SpecSeq == InitEmpty /\ [][NextSeq]_vars

\* Two invocations at once in an initially empty directory.
NextConc == \E p \in Procs : Run(p, SmallResponses)

SpecConc == InitEmpty /\ [][NextConc]_vars

(***************************************************************************)
(* Properties.                                                             *)
(***************************************************************************)
\* The statements after the existence check.
PastCheck == {"open", "normalize", "write", "done"}

\* The statements from which final_path[p] is set.
PathKnown == {"check"} \cup PastCheck

HasBadSymbol(items) ==
    \E i \in 1..Len(items) :
        items[i].day \notin Weekdays \/ items[i].time \notin MealTimes

MissingCalorie(c) == c.tag \in {"null", "absent"}

\* C1: when an invocation has ended, either no file was created or changed,
\* or the target path holds the complete normalised array of all entries
\* and nothing else changed.
C1_NoPartialSuccess ==
    \A p \in Procs :
        Ended(p) =>
            \/ fs = fs0[p]
            \/ /\ pc[p] = "done"
               /\ Len(output_for_save[p]) = Len(response[p].items)
               /\ fs = [fs0[p] EXCEPT ![final_path[p]] = FileOf(output_for_save[p])]

\* C2: an invocation whose target path held a file when it started never
\* gets past the existence check, can only end there with the assertion
\* error, and leaves every file as it was.
C2_CollisionRefused ==
    \A p \in Procs :
        (pc[p] \in PathKnown /\ fs0[p][final_path[p]].exists) =>
            /\ pc[p] = "check"
            /\ err[p] \in {"none", "AssertionError"}
            /\ fs = fs0[p]

\* An invocation died on the assertion at a path holding a written week,
\* which is still there.
C2_Witness ==
    \E p \in Procs :
        /\ pc[p] = "check" /\ err[p] = "AssertionError"
        /\ Len(fs0[p][final_path[p]].writes) = 1
        /\ Len(fs0[p][final_path[p]].writes[1]) = 1
        /\ fs = fs0[p]

\* C3: of two concurrent invocations with the same target path, at most
\* one opens and writes the file.
C3_AtMostOneWins ==
    \A p, q \in Procs :
        (p # q /\ pc[p] = "done" /\ pc[q] = "done") =>
            final_path[p] # final_path[q]

\* C4: an answer whose only irregularity is a null or absent calorie is not
\* rejected, and the persisted calorie is 0 for a null or absent one and
\* the integer itself otherwise.
C4_MissingCalorieBecomesZero ==
    \A p \in Procs :
        /\ (pc[p] = "validate" /\ err[p] = "ValidationError") =>
            ~ /\ response[p].valid_json
              /\ \A i \in 1..Len(response[p].items) :
                    response[p].items[i].calorie.tag \in {"int", "null", "absent"}
        /\ pc[p] = "done" =>
            \A i \in 1..Len(response[p].items) :
                fs[final_path[p]].writes[1][i].calorie =
                    IF MissingCalorie(response[p].items[i].calorie)
                    THEN 0 ELSE response[p].items[i].calorie.val

\* C5: an answer with a day outside Mon..Sun or a time outside
\* breakfast, lunch, dinner never gets past validation.
C5_BadSymbolRejectedByValidator ==
    \A p \in Procs :
        (pc[p] \notin {"config", "fetch", "request"}
            /\ response[p].valid_json /\ HasBadSymbol(response[p].items)) =>
            pc[p] = "validate"

\* C6: weekday_to_index maps exactly Mon..Sun one-to-one onto 1..7 with
\* Mon = 1 and Sun = 7, time_to_index maps exactly breakfast, lunch, dinner
\* onto 1, 2, 3, and an invocation whose validated entries hold any other
\* day or time never gets past the loop: it can only end there with the
\* lookup error, with nothing written to the file.
C6_MappingsTotalAndStrict ==
    /\ DOMAIN weekday_to_index = Weekdays
    /\ {weekday_to_index[d] : d \in Weekdays} = 1..7
    /\ weekday_to_index["Mon"] = 1 /\ weekday_to_index["Sun"] = 7
    /\ DOMAIN time_to_index = MealTimes
    /\ time_to_index["breakfast"] = 1 /\ time_to_index["lunch"] = 2
    /\ time_to_index["dinner"] = 3
    /\ \A p \in Procs :
        (pc[p] \in {"normalize", "write", "done"}
            /\ HasBadSymbol(parsed_result[p].items)) =>
            /\ pc[p] = "normalize"
            /\ err[p] \in {"none", "KeyError"}
            /\ fs[final_path[p]].writes = <<>>

\* An invocation died in the loop on a symbol outside the mappings.
C6_Witness ==
    \E p \in Procs :
        /\ pc[p] = "normalize" /\ err[p] = "KeyError"
        /\ HasBadSymbol(parsed_result[p].items)
        /\ fs[final_path[p]] = EmptyFile

\* C7: in the file of an invocation that succeeded, every entry has day in
\* 1..7, time in 1..3 and calorie >= 0.
C7_PersistedRanges ==
    \A p \in Procs :
        pc[p] = "done" =>
            \A w \in 1..Len(fs[final_path[p]].writes) :
                \A i \in 1..Len(fs[final_path[p]].writes[w]) :
                    LET e == fs[final_path[p]].writes[w][i] IN
                    e.day \in 1..7 /\ e.time \in 1..3 /\ e.calorie >= 0

\* C8: the file of an invocation that succeeded holds one array, as long as
\* the answer's items, whose i-th entry carries the i-th item's menus, its
\* date behind the year, and the indices of its day and time.
C8_OrderPreserved ==
    \A p \in Procs :
        pc[p] = "done" =>
            LET items == response[p].items
                f == fs[final_path[p]]
            IN  /\ Len(f.writes) = 1
                /\ Len(f.writes[1]) = Len(items)
                /\ \A i \in 1..Len(items) :
                    /\ f.writes[1][i].menus = items[i].menus
                    /\ f.writes[1][i].date = ToString(year[p]) \o "-" \o items[i].date
                    /\ f.writes[1][i].day = weekday_to_index[items[i].day]
                    /\ f.writes[1][i].time = time_to_index[items[i].time]
                    /\ f.writes[1][i].calorie = items[i].calorie.val

\* An invocation succeeded on an answer of two different items.
C8_Witness ==
    \E p \in Procs :
        /\ pc[p] = "done"
        /\ Len(response[p].items) = 2
        /\ response[p].items[1] # response[p].items[2]
        /\ Len(fs[final_path[p]].writes[1]) = 2

\* C9: in the file of an invocation that succeeded, every entry carries the
\* answer's restaurant_name, and the file's path is the one built from that
\* entry's restaurant_name.
C9_RestaurantNamePropagated ==
    \A p \in Procs :
        pc[p] = "done" =>
            \A i \in 1..Len(fs[final_path[p]].writes[1]) :
                LET e == fs[final_path[p]].writes[1][i] IN
                /\ e.restaurant_name = response[p].restaurant_name
                /\ final_path[p] =
                    PathOf(e.restaurant_name, year[p], response[p].start_date)

\* An invocation succeeded on a Halal answer with entries.
C9_Witness ==
    \E p \in Procs :
        /\ pc[p] = "done"
        /\ response[p].restaurant_name = "dorm_halal"
        /\ Len(fs[final_path[p]].writes[1]) >= 1
        /\ \A i \in 1..Len(fs[final_path[p]].writes[1]) :
            fs[final_path[p]].writes[1][i].restaurant_name = "dorm_halal"

\* A path some running invocation holds open for writing.
HeldOpen(path) ==
    \E p \in Procs :
        pc[p] \in {"normalize", "write"} /\ err[p] = "none" /\ final_path[p] = path

\* C10: with invocations one after another, an invocation whose path
\* existed when it started (an earlier one opened it, whether it went on to
\* write or died in the loop) can only die on the assertion; and a file
\* that exists and is held open by no running invocation never changes.
C10_LedgerIsFinal ==
    /\ [](\A p \in Procs :
            (pc[p] \in PathKnown /\ fs0[p][final_path[p]].exists) =>
                pc[p] = "check" /\ err[p] \in {"none", "AssertionError"})
    /\ [][\A path \in Paths :
            (fs[path].exists /\ ~HeldOpen(path)) => fs'[path] = fs[path]]_vars

\* A later invocation died on the assertion at a path that an earlier one
\* opened and left empty.
C10_Witness ==
    \E p \in Procs :
        /\ runs >= 2
        /\ pc[p] = "check" /\ err[p] = "AssertionError"
        /\ fs[final_path[p]] = EmptyFile

====
